---- MODULE Spec2Model ----
(***************************************************************************)
(* Model of src/app.ts: the asynchronous `handler`.                        *)
(*                                                                         *)
(*   try   { console.log(event); return {200, JSON.stringify(success)} }   *)
(*   catch { errorMessage = error instanceof Error ? error.message : ...;  *)
(*           console.error(errorMessage);                                  *)
(*           return {500, JSON.stringify(failed)} }                        *)
(*                                                                         *)
(* Several invocations run side by side; each one is a small sequential    *)
(* process whose position is pc[i].  The diagnostic output is the one      *)
(* sink all invocations of a process write to.  A call the handler makes   *)
(* (console.log, JSON.stringify, console.error) either completes or raises *)
(* a value; what is raised is chosen from Thrown.                          *)
(***************************************************************************)
EXTENDS Integers, Sequences, FiniteSets, TLC

\* Number of invocations the platform starts.
NumInv == 2

Invocations == 1..NumInv

----------------------------------------------------------------------------
\* Values

None == [none |-> TRUE]

\* An Error object with the given message.
Err(m) == [isError |-> TRUE, message |-> m]

\* A thrown value that is not an Error (it may still carry a message field).
NonErr(m) == [isError |-> FALSE, message |-> m]

\* The values an event's own inspection hook can raise: anything.
Thrown == {Err("boom"), Err("failed"), NonErr("oops")}

\* The values the runtime's own calls (JSON.stringify, console.error) raise:
\* Error objects.
RuntimeErrors == {Err("boom")}

\* Event values: null, an object, a primitive, and a value whose inspection
\* raises (for example an object with a throwing custom inspect hook).
EvNull == [type |-> "null", val |-> ""]
EvObject == [type |-> "object", val |-> "bar"]
EvPrimitive == [type |-> "number", val |-> "42"]
EvUnloggable == [type |-> "throwing", val |-> ""]

Events == {EvNull, EvObject, EvPrimitive, EvUnloggable}

\* Whether console.log can format the value without raising.
Loggable(e) == e.type # "throwing"

\* The text console.log writes for an event (util.inspect).
Inspect(e) ==
    CASE e.type = "null" -> "null"
      [] e.type = "object" -> "{ foo: '" \o e.val \o "' }"
      [] e.type = "number" -> e.val
      [] OTHER -> ""

\* JSON.stringify of a string (the strings used need no escaping).
Quote(s) == "\"" \o s \o "\""

\* JSON.stringify({status: ..., message: ...}): keys in insertion order.
JSONStringify(o) ==
    "{" \o Quote("status") \o ":" \o Quote(o.status) \o ","
        \o Quote("message") \o ":" \o Quote(o.message) \o "}"

\* The object returned by the try block.
SuccessResponse ==
    [statusCode |-> 200,
     body |-> JSONStringify([status |-> "success", message |-> "handler triggered"])]

\* Faulty variant: the failure status code paired with the success status.
FailureResponseMixed ==
    [statusCode |-> 500,
     body |-> JSONStringify([status |-> "success", message |-> "Something went wrong"])]

\* The object returned by the catch block.
FailureResponse ==
    [statusCode |-> 500,
     body |-> JSONStringify([status |-> "failed", message |-> "Something went wrong"])]

\* Faulty variant: the instanceof test is forgotten.
DeriveMessageNoCheck(error) == error.message

\* const errorMessage = error instanceof Error ? error.message : "Something went wrong"
DeriveMessage(error) ==
    IF error.isError THEN error.message ELSE "Something went wrong"

\* Entries of the diagnostic output.
InfoEntry(i, e) == [inv |-> i, level |-> "log", text |-> Inspect(e)]
ErrorEntry(i, m) == [inv |-> i, level |-> "error", text |-> m]

----------------------------------------------------------------------------
\* State

VARIABLES
    pc,           \* position of each invocation
    event,        \* the argument of each invocation
    error,        \* the value bound by `catch (error)`
    errorMessage, \* the local const of the catch block
    raisedAt,     \* the statement of the try block that raised
    result,       \* the value the returned promise is fulfilled with
    rejection,    \* the value the returned promise is rejected with
    rejectedAt,   \* the statement of the catch block that raised
    out           \* the diagnostic output

vars == <<pc, event, error, errorMessage, raisedAt, result, rejection, rejectedAt, out>>

Init ==
    /\ pc = [i \in Invocations |-> "idle"]
    /\ event = [i \in Invocations |-> None]
    /\ error = [i \in Invocations |-> None]
    /\ errorMessage = [i \in Invocations |-> None]
    /\ raisedAt = [i \in Invocations |-> "none"]
    /\ result = [i \in Invocations |-> None]
    /\ rejection = [i \in Invocations |-> None]
    /\ rejectedAt = [i \in Invocations |-> "none"]
    /\ out = <<>>

----------------------------------------------------------------------------
\* Steps of one invocation

\* The platform calls handler(e).
Invoke(i, e) ==
    /\ pc[i] = "idle"
    /\ pc' = [pc EXCEPT ![i] = "log"]
    /\ event' = [event EXCEPT ![i] = e]
    /\ UNCHANGED <<error, errorMessage, raisedAt, result, rejection, rejectedAt, out>>

\* Faulty variant: a failure restarts the try block.
CatchTargetRetry == "log"

\* Where control goes when a statement of the try block raises.
CatchTarget == "catch"

\* A statement of the try block raises t: control enters the catch block,
\* which binds error and computes errorMessage.
EnterCatch(i, t, at) ==
    /\ pc' = [pc EXCEPT ![i] = CatchTarget]
    /\ error' = [error EXCEPT ![i] = t]
    /\ errorMessage' = [errorMessage EXCEPT ![i] = DeriveMessage(t)]
    /\ raisedAt' = [raisedAt EXCEPT ![i] = at]
    /\ UNCHANGED <<event, result, rejection, rejectedAt>>

\* console.log(event) completes: the entry is written.
LogEvent(i) ==
    /\ pc[i] = "log"
    /\ Loggable(event[i])
    /\ out' = Append(out, InfoEntry(i, event[i]))
    /\ pc' = [pc EXCEPT ![i] = "build"]
    /\ UNCHANGED <<event, error, errorMessage, raisedAt, result, rejection, rejectedAt>>

\* console.log(event) raises while formatting the event: nothing is written.
LogEventThrows(i, t) ==
    /\ pc[i] = "log"
    /\ ~Loggable(event[i])
    /\ EnterCatch(i, t, "log")
    /\ UNCHANGED out

\* Faulty variant: the success body echoes the event.
ReturnSuccessEcho(i) ==
    /\ pc[i] = "build"
    /\ result' = [result EXCEPT ![i] =
           [statusCode |-> 200,
            body |-> JSONStringify([status |-> "success", message |-> Inspect(event[i])])]]
    /\ pc' = [pc EXCEPT ![i] = "fulfilled"]
    /\ UNCHANGED <<event, error, errorMessage, raisedAt, rejection, rejectedAt, out>>

\* return { statusCode: 200, body: JSON.stringify(...) }
ReturnSuccess(i) ==
    /\ pc[i] = "build"
    /\ result' = [result EXCEPT ![i] = SuccessResponse]
    /\ pc' = [pc EXCEPT ![i] = "fulfilled"]
    /\ UNCHANGED <<event, error, errorMessage, raisedAt, rejection, rejectedAt, out>>

\* JSON.stringify of the success body raises.
BuildSuccessThrows(i, t) ==
    /\ pc[i] = "build"
    /\ EnterCatch(i, t, "build")
    /\ UNCHANGED out

\* Faulty variant: errorMessage is one module-level variable, so the catch
\* block reads whatever message is stored there.
MessageToLogShared(i) ==
    errorMessage[CHOOSE j \in Invocations : error[j] # None]

\* The argument of console.error: the invocation's own errorMessage.
MessageToLog(i) == errorMessage[i]

\* Faulty variant: the response message is errorMessage.
LogErrorAndReturnLeaky(i) ==
    /\ pc[i] = "catch"
    /\ out' = Append(out, ErrorEntry(i, MessageToLog(i)))
    /\ result' = [result EXCEPT ![i] =
           [statusCode |-> 500,
            body |-> JSONStringify([status |-> "failed", message |-> errorMessage[i]])]]
    /\ pc' = [pc EXCEPT ![i] = "fulfilled"]
    /\ UNCHANGED <<event, error, errorMessage, raisedAt, rejection, rejectedAt>>

\* Faulty variant: the catch block returns without calling console.error.
LogErrorAndReturnSilent(i) ==
    /\ pc[i] = "catch"
    /\ result' = [result EXCEPT ![i] = FailureResponse]
    /\ pc' = [pc EXCEPT ![i] = "fulfilled"]
    /\ UNCHANGED <<event, error, errorMessage, raisedAt, rejection, rejectedAt, out>>

\* console.error(errorMessage); return { statusCode: 500, ... }
LogErrorAndReturn(i) ==
    /\ pc[i] = "catch"
    /\ out' = Append(out, ErrorEntry(i, MessageToLog(i)))
    /\ result' = [result EXCEPT ![i] = FailureResponse]
    /\ pc' = [pc EXCEPT ![i] = "fulfilled"]
    /\ UNCHANGED <<event, error, errorMessage, raisedAt, rejection, rejectedAt>>

\* console.error raises: the catch block has no handler of its own, so the
\* async function's promise is rejected.  Nothing is written.
LogErrorThrows(i, t) ==
    /\ pc[i] = "catch"
    /\ rejection' = [rejection EXCEPT ![i] = t]
    /\ rejectedAt' = [rejectedAt EXCEPT ![i] = "console.error"]
    /\ pc' = [pc EXCEPT ![i] = "rejected"]
    /\ UNCHANGED <<event, error, errorMessage, raisedAt, result, out>>

\* console.error completes, then JSON.stringify of the failure body raises.
BuildFailureThrows(i, t) ==
    /\ pc[i] = "catch"
    /\ out' = Append(out, ErrorEntry(i, MessageToLog(i)))
    /\ rejection' = [rejection EXCEPT ![i] = t]
    /\ rejectedAt' = [rejectedAt EXCEPT ![i] = "stringify"]
    /\ pc' = [pc EXCEPT ![i] = "rejected"]
    /\ UNCHANGED <<event, error, errorMessage, raisedAt, result>>

\* A step of the body of a started invocation.
Step(i) ==
        \/ LogEvent(i)
        \/ \E t \in Thrown : LogEventThrows(i, t)
        \/ ReturnSuccess(i)
        \/ \E t \in RuntimeErrors : BuildSuccessThrows(i, t)
        \/ LogErrorAndReturn(i)
        \/ \E t \in RuntimeErrors : LogErrorThrows(i, t)
        \/ \E t \in RuntimeErrors : BuildFailureThrows(i, t)

Next ==
    \E i \in Invocations :
        \/ \E e \in Events : Invoke(i, e)
        \/ Step(i)

Spec == Init /\ [][Next]_vars

\* The event loop runs every started invocation to its end.
FairSpec == Spec /\ \A i \in Invocations : WF_vars(Step(i))

----------------------------------------------------------------------------
\* Vocabulary of the properties

\* The two responses, written out.
Response200 ==
    [statusCode |-> 200,
     body |-> "{\"status\":\"success\",\"message\":\"handler triggered\"}"]
Response500 ==
    [statusCode |-> 500,
     body |-> "{\"status\":\"failed\",\"message\":\"Something went wrong\"}"]

Returned(i) == pc[i] = "fulfilled"
Propagated(i) == pc[i] = "rejected"
Settled(i) == Returned(i) \/ Propagated(i)

\* A statement of the try block raised.
FailedInAttempt(i) == raisedAt[i] # "none"

\* The invocation ran without any failure and returned.
SucceededAndReturned(i) == Returned(i) /\ ~FailedInAttempt(i)

\* The invocation took the failure path and returned.
FailedAndReturned(i) == Returned(i) /\ FailedInAttempt(i)

\* needle occurs in hay.
Contains(hay, needle) ==
    \E k \in 1..(Len(hay) - Len(needle) + 1) :
        SubSeq(hay, k, k + Len(needle) - 1) = needle

\* The entries invocation i wrote, in the order of the output.
OwnLog(i) == SelectSeq(out, LAMBDA en : en.inv = i)
OwnLevels(i) == [k \in 1..Len(OwnLog(i)) |-> OwnLog(i)[k].level]

\* Position of a pc value in the handler's control flow.
Rank(p) ==
    CASE p = "idle" -> 0
      [] p = "log" -> 1
      [] p = "build" -> 2
      [] p = "catch" -> 3
      [] OTHER -> 4

----------------------------------------------------------------------------
\* C1: for every event value, an invocation never ends by propagating a
\* failure: every invocation that has ended, and in particular every one in
\* which a statement of the attempt raised, ended by returning a Response.
C1_NeverPropagates ==
    \A i \in Invocations :
        Settled(i) => Returned(i) /\ result[i] \in {Response200, Response500}

\* C2: no failure escapes the handler: a failure raised by a statement of
\* the failure path itself (the error-level log write, building the 500
\* response) is caught as well, so no promise is ever rejected with it.
C2_CatchBlockFailureIsCaught ==
    \A i \in Invocations : rejectedAt[i] = "none" /\ rejection[i] = None

\* C3: an invocation in which no failure occurred returns exactly the 200
\* response, whatever its event was.
C3_SuccessResponse ==
    \A i \in Invocations :
        SucceededAndReturned(i) => result[i] = Response200

\* C3 witness: a null event and an object event both returned without failure.
C3_Witness ==
    \E i, j \in Invocations :
        /\ SucceededAndReturned(i) /\ event[i] = EvNull
        /\ SucceededAndReturned(j) /\ event[j] = EvObject

\* C4: an invocation in which the attempt raised, whatever was raised (an
\* Error with any message, or a value that is not an Error), returns exactly
\* the 500 response.
C4_FailureResponse ==
    \A i \in Invocations :
        FailedAndReturned(i) => result[i] = Response500

\* C4 witness: one invocation returned after an Error was raised and another
\* after a value that is not an Error was raised.
C4_Witness ==
    \E i, j \in Invocations :
        /\ FailedAndReturned(i) /\ error[i].isError
        /\ FailedAndReturned(j) /\ ~error[j].isError

\* C5 as stated: failure-path responses are identical whatever was raised,
\* and the text of what was raised never occurs in the response body.
C5_ErrorTextNeverInBody ==
    \A i \in Invocations :
        FailedAndReturned(i) =>
            /\ \A j \in Invocations : FailedAndReturned(j) => result[j] = result[i]
            /\ ~Contains(result[i].body, error[i].message)

\* C5 amended: failure-path responses are identical whatever was raised, and
\* the text of what was raised occurs in the response body only when it is
\* already a part of the fixed failure body.
C5_ResponseIndependentOfError ==
    \A i \in Invocations :
        FailedAndReturned(i) =>
            /\ \A j \in Invocations : FailedAndReturned(j) => result[j] = result[i]
            /\ Contains(result[i].body, error[i].message)
                   => Contains(Response500.body, error[i].message)

\* C5 witness: two invocations returned after failures with different
\* messages, one of them a message that is a word of the fixed body.
C5_Witness ==
    \E i, j \in Invocations :
        /\ FailedAndReturned(i) /\ error[i] = Err("failed")
        /\ FailedAndReturned(j) /\ error[j] = Err("boom")

\* C6: every Response handed to a caller is one of the two fixed values.
C6_TwoResponseShapes ==
    \A i \in Invocations :
        result[i] # None =>
            /\ Returned(i)
            /\ result[i] \in {Response200, Response500}
            /\ result[i].statusCode \in {200, 500}

\* C6 witness: both values have been returned.
C6_Witness ==
    \E i, j \in Invocations :
        result[i] = Response200 /\ result[j] = Response500

\* C7 as stated: a returned invocation wrote exactly one entry (the event)
\* on the success path and exactly two (the event, then the error) on the
\* failure path; an error entry only on the failure path; never more than two.
C7_OnceOrTwice ==
    \A i \in Invocations :
        /\ SucceededAndReturned(i) => OwnLevels(i) = <<"log">>
        /\ FailedAndReturned(i) => OwnLevels(i) = <<"log", "error">>
        /\ Len(OwnLog(i)) <= 2
        /\ (\E k \in 1..Len(OwnLog(i)) : OwnLevels(i)[k] = "error") => FailedInAttempt(i)

\* C7 amended: a returned invocation wrote exactly one entry (the event) on
\* the success path; on the failure path it wrote the error entry exactly
\* once, preceded by the event's entry exactly when the failure was raised
\* after the event had been logged, and alone when logging the event is what
\* failed; an error entry only on the failure path; never more than two.
C7_LogEntries ==
    \A i \in Invocations :
        /\ SucceededAndReturned(i) =>
               OwnLog(i) = <<InfoEntry(i, event[i])>>
        /\ FailedAndReturned(i) /\ raisedAt[i] = "build" =>
               /\ OwnLevels(i) = <<"log", "error">>
               /\ OwnLog(i)[1] = InfoEntry(i, event[i])
        /\ FailedAndReturned(i) /\ raisedAt[i] = "log" =>
               OwnLevels(i) = <<"error">>
        /\ Len(OwnLog(i)) <= 2
        /\ OwnLevels(i) \in {<<>>, <<"log">>, <<"error">>, <<"log", "error">>}
        /\ (\E k \in 1..Len(OwnLog(i)) : OwnLevels(i)[k] = "error") => FailedInAttempt(i)

\* C7 witness: one invocation returned 500 having written only the error
\* entry, another returned 500 having written both entries.
C7_Witness ==
    \E i, j \in Invocations :
        /\ FailedAndReturned(i) /\ OwnLevels(i) = <<"error">>
        /\ FailedAndReturned(j) /\ OwnLevels(j) = <<"log", "error">>

\* C8: every error-level entry carries the message of the Error that was
\* raised, or "Something went wrong" when what was raised is not an Error;
\* the response of that invocation carries "Something went wrong" either way.
C8_LoggedText ==
    \A k \in 1..Len(out) :
        out[k].level = "error" =>
            LET i == out[k].inv IN
            /\ error[i] # None
            /\ error[i].isError => out[k].text = error[i].message
            /\ ~error[i].isError => out[k].text = "Something went wrong"
            /\ Returned(i) => result[i] = Response500

\* C8 witness: the output holds the message of an Error and the fixed text
\* logged for a value that is not an Error.
C8_Witness ==
    \E k, l \in 1..Len(out) :
        /\ out[k].level = "error" /\ error[out[k].inv] = Err("boom")
        /\ out[k].text = "boom" /\ Returned(out[k].inv)
        /\ out[l].level = "error" /\ error[out[l].inv] = NonErr("oops")
        /\ out[l].text = "Something went wrong"

\* What invocation i writes when it runs alone and its own calls have the
\* outcomes recorded for it.
SoloLog(i) ==
    (IF Rank(pc[i]) >= 2 /\ raisedAt[i] # "log"
        THEN <<[inv |-> i, level |-> "log", text |-> Inspect(event[i])]>>
        ELSE <<>>)
    \o
    (IF FailedAndReturned(i) \/ rejectedAt[i] = "stringify"
        THEN <<[inv |-> i, level |-> "error",
                text |-> IF error[i].isError THEN error[i].message
                                             ELSE "Something went wrong"]>>
        ELSE <<>>)

\* What invocation i returns when it runs alone.
SoloResult(i) ==
    IF Returned(i)
        THEN IF FailedInAttempt(i) THEN Response500 ELSE Response200
        ELSE None

\* C9: under every interleaving, each invocation's own entries and its
\* Response are those of a run on its own: they are determined by its own
\* event and its own failures, not by what other invocations did.
C9_Independent ==
    \A i \in Invocations :
        /\ OwnLog(i) = SoloLog(i)
        /\ result[i] = SoloResult(i)

\* C9 witness: two invocations with different outcomes whose output entries
\* are interleaved.
C9_Witness ==
    \E i, j \in Invocations :
        /\ i # j /\ Settled(i) /\ Settled(j)
        /\ result[i] = Response200 /\ result[j] = Response500
        /\ error[j] = Err("boom")
        /\ Len(out) >= 3
        /\ out[1].inv = j /\ out[2].inv = i /\ out[3].inv = j

\* Every step of an invocation moves it forward in the control flow, so no
\* statement runs twice.
Forward ==
    \A i \in Invocations :
        \/ UNCHANGED <<pc[i], event[i], error[i], result[i], rejection[i]>>
        \/ Rank(pc'[i]) > Rank(pc[i])

\* C10: nothing is retried or looped: each step takes an invocation strictly
\* forward (log, then return 200, or enter the failure path, log and end),
\* and under fairness every started invocation ends.
C10_Terminates ==
    /\ [][Forward]_vars
    /\ \A i \in Invocations : (pc[i] # "idle") ~> Settled(i)

\* C10 witness: an invocation has ended through the failure path, having
\* passed every position once.
C10_Witness ==
    \E i \in Invocations :
        /\ Returned(i) /\ raisedAt[i] = "build"
        /\ Len(OwnLog(i)) = 2

====
